---- MODULE Spec2Model ----
(***************************************************************************)
(* A model of the rusticsearch indexing-and-query core:                    *)
(*   - abra_rocksdb/src/chunk.rs : ChunkManager and ActiveChunksIterator   *)
(*   - src/search/term.rs        : Term::to_bytes                          *)
(*   - src/query.rs              : parse_query, parse_filter, matches      *)
(*                                                                         *)
(* Rust strings and byte strings that are stored in, or read from, the     *)
(* key-value store are sequences of byte values (b'a' is 97), because the  *)
(* store orders its keys bytewise.  JSON strings are TLA+ strings.         *)
(* Option<T> is a sequence of length at most one: None is <<>>, Some(x)    *)
(* is <<x>>.                                                               *)
(***************************************************************************)
EXTENDS Integers, Sequences, FiniteSets, TLC

None == <<>>
Some(x) == <<x>>

(***************************************************************************)
(* u32.  TLC's integers are 32-bit signed, so a u32 is the pair            *)
(* <<hi, lo>> of its 16-bit halves; its value is hi * 65536 + lo.          *)
(***************************************************************************)
LimbBase == 65536

U32FromNat(n) == <<n \div LimbBase, n % LimbBase>>

U32_MAX == <<LimbBase - 1, LimbBase - 1>>

IsU32(a) == /\ a[1] \in 0..(LimbBase - 1)
            /\ a[2] \in 0..(LimbBase - 1)

U32Lt(a, b) == \/ a[1] < b[1]
               \/ a[1] = b[1] /\ a[2] < b[2]

\* AtomicU32::fetch_add and release-build `+`: addition modulo 2^32.
wrapping_add_1(a) ==
    IF a[2] + 1 < LimbBase
    THEN <<a[1], a[2] + 1>>
    ELSE <<(a[1] + 1) % LimbBase, 0>>

\* a * 10 + d as Option<u32>: None when the result does not fit in 32 bits
\* (checked_mul followed by checked_add in the integer parser).
checked_mul10_add(a, d) ==
    LET lo == a[2] * 10 + d
        hi == a[1] * 10 + (lo \div LimbBase)
    IN  IF hi >= LimbBase THEN None ELSE Some(<<hi, lo % LimbBase>>)

\* Quotient and remainder of a u32 by 10.
DivMod10(a) ==
    LET t == (a[1] % 10) * LimbBase + a[2]
    IN  [q |-> <<a[1] \div 10, t \div 10>>, r |-> t % 10]

\* u32::to_string: the decimal digits, most significant first, no padding.
RECURSIVE to_string(_)
to_string(a) ==
    LET dm == DivMod10(a)
    IN  IF dm.q = <<0, 0>>
        THEN <<48 + dm.r>>
        ELSE Append(to_string(dm.q), 48 + dm.r)

\* str::parse::<u32>: an optional leading '+', then one or more ASCII
\* digits whose value fits in 32 bits; anything else is an error (None).
RECURSIVE parse_digits(_, _)
parse_digits(digits, acc) ==
    IF Len(digits) = 0 THEN Some(acc)
    ELSE IF Head(digits) \notin 48..57 THEN None
    ELSE LET r == checked_mul10_add(acc, Head(digits) - 48)
         IN  IF r = None THEN None ELSE parse_digits(Tail(digits), r[1])

parse_u32(src) ==
    IF Len(src) = 0 THEN None
    ELSE LET digits == IF Head(src) = 43 THEN Tail(src) ELSE src
         IN  IF Len(digits) = 0 THEN None ELSE parse_digits(digits, <<0, 0>>)

\* DBVector::to_utf8 on the stored value.  The stored values of the model
\* are ASCII or hold the byte 255, which no UTF-8 text contains.
to_utf8(bytes) ==
    IF \E i \in 1..Len(bytes) : bytes[i] >= 128 THEN None ELSE Some(bytes)

(***************************************************************************)
(* The key-value store: a function from the keys present to their values.  *)
(* Keys are ordered bytewise (RocksDB's default comparator).               *)
(***************************************************************************)
RECURSIVE KeyLt(_, _)
KeyLt(a, b) ==
    IF Len(b) = 0 THEN FALSE
    ELSE IF Len(a) = 0 THEN TRUE
    ELSE IF Head(a) # Head(b) THEN Head(a) < Head(b)
    ELSE KeyLt(Tail(a), Tail(b))

db_put(store, k, v) ==
    [x \in (DOMAIN store) \cup {k} |-> IF x = k THEN v ELSE store[x]]

db_delete(store, k) ==
    [x \in (DOMAIN store) \ {k} |-> store[x]]

\* db.get: Ok(Some(value)) or Ok(None).  The store of the model never
\* fails a read, so the Err arm of `open` is modelled but not taken.
db_get(store, k) ==
    IF k \in DOMAIN store
    THEN [ok |-> TRUE, value |-> Some(store[k])]
    ELSE [ok |-> TRUE, value |-> None]

\* b".next_chunk"
NEXT_CHUNK_KEY == <<46, 110, 101, 120, 116, 95, 99, 104, 117, 110, 107>>

\* The marker key of an active chunk: b'a' followed by the decimal id.
ActiveKey(id) == <<97>> \o to_string(id)

(***************************************************************************)
(* Bounds of the model.                                                    *)
(***************************************************************************)
\* new_chunk calls that complete in one run.
MaxCalls == 3
\* Calls of ActiveChunksIterator::next in one run.
MaxNext == 6
\* Threads that allocate on one manager.
MaxAllocators == 2
\* Process crashes in one run.
MaxCrashes == 2

VARIABLES
    db,               \* the store
    mgr,              \* "none" | "ready" | "panicked": the ChunkManager
    next_chunk,       \* ChunkManager.next_chunk (AtomicU32)
    overflow_checks,  \* whether the build panics on integer overflow
    pc,               \* position of the caller inside new_chunk
    local_next_chunk, \* new_chunk's local `next_chunk`
    origin,           \* history: "new" or "open", the constructor used
    start,            \* history: Option of the counter fixed by the constructor
    returned,         \* history: the ids returned by new_chunk, in order
    snapshot,         \* Option of the store's contents when the snapshot was taken
    active_iter,      \* Option of the ActiveChunksIterator
    yielded,          \* history: the results of ActiveChunksIterator::next, in order
    snap_markers,     \* history: the marker keys present when the snapshot was taken
    term_x, term_y,   \* two i64 values, the inputs of Term::to_bytes
    enc_x, enc_y,     \* Option of to_bytes(Term::I64(term_x)), of term_y
    query_input,       \* the Json handed to parse_query
    query_result,     \* Option of what parse_query returned
    filter_input,      \* the Json handed to parse_filter
    doc,              \* the Document handed to Filter::matches
    filter,           \* Option of what parse_filter returned
    matched,          \* Option of what Filter::matches returned
    allocators,       \* the threads that call new_chunk on the manager
    caller,           \* Option of the allocator that holds the manager (&mut self)
    returned_by,      \* history: the allocator of each id of `returned`
    crashes,          \* history: the number of process crashes so far
    crash_at,         \* history: Len(returned) at the last crash
    interrupted,      \* history: Option of the id of the call the last crash cut
                      \* between its increment and its write
    map_type,         \* FieldMapping.data_type
    map_value,        \* the Json handed to process_value_for_index, parse_boolean
    map_result,       \* Option of what process_value_for_index returned
    bool_result,      \* Option of what parse_boolean returned
    settings_input,   \* the Json handed to the index settings parse
    reg_tokenizers,   \* index_settings.analyzers: the named tokenizers
    reg_filters,      \* index_settings.analyzers: the named filters
    reg_analyzers,    \* index_settings.analyzers: the named analyzers
    settings_result   \* Option of what the index settings parse returned

proc_vars == <<allocators, caller, returned_by>>
crash_vars == <<crashes, crash_at, interrupted>>
chunk_vars == <<db, mgr, next_chunk, overflow_checks, pc, local_next_chunk,
                origin, start, returned, proc_vars, crash_vars>>
iter_vars == <<snapshot, active_iter, yielded, snap_markers>>

term_vars == <<term_x, term_y, enc_x, enc_y>>
query_vars == <<query_input, query_result>>
filter_vars == <<filter_input, doc, filter, matched>>
store_vars == <<chunk_vars, iter_vars>>
mapping_vars == <<map_type, map_value, map_result, bool_result>>
settings_vars == <<settings_input, reg_tokenizers, reg_filters, reg_analyzers,
                   settings_result>>
pure_vars == <<term_vars, query_vars, filter_vars, mapping_vars, settings_vars>>

vars == <<store_vars, pure_vars>>

(***************************************************************************)
(* ChunkManager (abra_rocksdb/src/chunk.rs)                                *)
(***************************************************************************)

\* A variant of open that ignores the stored counter.
open_ignoring_store(got) == [panic |-> FALSE, next_chunk |-> U32FromNat(1)]

\* ChunkManager::open, as a function of what db.get returned: the counter
\* to resume from, or a panic (an unwrap of a value that is not UTF-8 or
\* does not parse as a u32).
open(got) ==
    IF ~got.ok THEN [panic |-> FALSE, next_chunk |-> U32FromNat(1)]
    ELSE IF got.value = None THEN [panic |-> FALSE, next_chunk |-> U32FromNat(1)]
    ELSE LET text == to_utf8(got.value[1])
             parsed == IF text = None THEN None ELSE parse_u32(text[1])
         IN  IF parsed = None
             THEN [panic |-> TRUE, next_chunk |-> U32FromNat(0)]
             ELSE [panic |-> FALSE, next_chunk |-> parsed[1]]

\* A variant of add_1 that adds two.
add_2(a, checks) == [panic |-> FALSE, value |-> wrapping_add_1(wrapping_add_1(a))]

\* A variant of add_1 that adds nothing.
add_0(a, checks) == [panic |-> FALSE, value |-> a]

\* `next_chunk + 1` in new_chunk: panics in a build with overflow checks,
\* wraps otherwise.
add_1(a, checks) ==
    IF a = U32_MAX /\ checks
    THEN [panic |-> TRUE, value |-> a]
    ELSE [panic |-> FALSE, value |-> wrapping_add_1(a)]

\* ChunkManager::new
New ==
    /\ mgr = "none"
    /\ db' = db_put(db, NEXT_CHUNK_KEY, <<49>>)
    /\ next_chunk' = U32FromNat(1)
    /\ mgr' = "ready"
    /\ origin' = "new"
    /\ start' = Some(U32FromNat(1))
    /\ UNCHANGED <<overflow_checks, pc, local_next_chunk, returned, iter_vars,
                   proc_vars, crash_vars, pure_vars>>

\* ChunkManager::open
Open ==
    /\ mgr = "none"
    /\ LET r == open(db_get(db, NEXT_CHUNK_KEY))
       IN  /\ mgr' = IF r.panic THEN "panicked" ELSE "ready"
           /\ next_chunk' = IF r.panic THEN next_chunk ELSE r.next_chunk
           /\ start' = IF r.panic THEN None ELSE Some(r.next_chunk)
    /\ origin' = "open"
    /\ UNCHANGED <<db, overflow_checks, pc, local_next_chunk, returned, iter_vars,
                   proc_vars, crash_vars, pure_vars>>

\* A variant of the first statement that takes the counter after the
\* increment (add-then-fetch).
NewChunkAddFetch ==
    /\ mgr = "ready"
    /\ pc = "idle"
    /\ Len(returned) < MaxCalls
    /\ local_next_chunk' = wrapping_add_1(next_chunk)
    /\ next_chunk' = wrapping_add_1(next_chunk)
    /\ pc' = "fetched"
    /\ \E t \in allocators : caller' = Some(t)
    /\ UNCHANGED <<db, mgr, overflow_checks, origin, start, returned, iter_vars,
                   allocators, returned_by, crash_vars, pure_vars>>

\* A variant of the first statement that reads the counter and leaves it
\* as it is (load instead of fetch_add).
NewChunkLoad ==
    /\ mgr = "ready"
    /\ pc = "idle"
    /\ Len(returned) < MaxCalls
    /\ local_next_chunk' = next_chunk
    /\ next_chunk' = next_chunk
    /\ pc' = "fetched"
    /\ \E t \in allocators : caller' = Some(t)
    /\ UNCHANGED <<db, mgr, overflow_checks, origin, start, returned, iter_vars,
                   allocators, returned_by, crash_vars, pure_vars>>

\* new_chunk, first statement: next_chunk = self.next_chunk.fetch_add(1, SeqCst).
\* new_chunk takes &mut self: a call begins only when no other call on the
\* manager is in flight, whichever allocator makes it.
NewChunkFetchAdd ==
    /\ mgr = "ready"
    /\ pc = "idle"
    /\ Len(returned) < MaxCalls
    /\ local_next_chunk' = next_chunk
    /\ next_chunk' = wrapping_add_1(next_chunk)
    /\ pc' = "fetched"
    /\ \E t \in allocators : caller' = Some(t)
    /\ UNCHANGED <<db, mgr, overflow_checks, origin, start, returned, iter_vars,
                   allocators, returned_by, crash_vars, pure_vars>>

\* new_chunk, the rest: db.put(".next_chunk", (next_chunk + 1).to_string())
\* and the return of next_chunk.
NewChunkPut ==
    /\ mgr = "ready"
    /\ pc = "fetched"
    /\ LET r == add_1(local_next_chunk, overflow_checks)
       IN  IF r.panic
           THEN /\ mgr' = "panicked"
                /\ UNCHANGED <<db, returned, returned_by>>
           ELSE /\ db' = db_put(db, NEXT_CHUNK_KEY, to_string(r.value))
                /\ returned' = Append(returned, local_next_chunk)
                /\ returned_by' = Append(returned_by, caller[1])
                /\ mgr' = mgr
    /\ pc' = "idle"
    /\ caller' = None
    /\ UNCHANGED <<next_chunk, overflow_checks, local_next_chunk, origin, start,
                   iter_vars, allocators, crash_vars, pure_vars>>

\* The process dies, at any step of new_chunk or between calls: the manager
\* and a call in flight are lost, the store stays as it is.
Crash ==
    /\ mgr # "none"
    /\ crashes < MaxCrashes
    /\ crashes' = crashes + 1
    /\ crash_at' = Len(returned)
    /\ interrupted' = IF mgr = "ready" /\ pc = "fetched"
                      THEN Some(local_next_chunk)
                      ELSE None
    /\ mgr' = "none"
    /\ pc' = "idle"
    /\ caller' = None
    /\ next_chunk' = U32FromNat(0)
    /\ local_next_chunk' = U32FromNat(0)
    /\ UNCHANGED <<db, overflow_checks, origin, start, returned, allocators,
                   returned_by, iter_vars, pure_vars>>

\* ChunkManager::new on a store no process has crashed on: after a crash
\* the store is reopened with open.
NewBeforeCrash ==
    /\ crashes = 0
    /\ New

(***************************************************************************)
(* Active chunks: marker writes, the snapshot, ActiveChunksIterator        *)
(***************************************************************************)

\* The chunk ids whose markers the callers of the model write and delete.
MarkerIds == {U32FromNat(n) : n \in {1, 2, 5, 10}}

\* Keys of the store that belong to other parts of the index: b"d1".
OtherKeys == {<<100, 49>>}

\* A caller marks chunk `id` active (persisted layout: b'a' ++ decimal id).
PutMarker(id) ==
    /\ ActiveKey(id) \notin DOMAIN db
    /\ db' = db_put(db, ActiveKey(id), <<>>)
    /\ UNCHANGED <<mgr, next_chunk, overflow_checks, pc, local_next_chunk,
                   origin, start, returned, iter_vars,
                   proc_vars, crash_vars, pure_vars>>

\* A caller retires chunk `id`.
DeleteMarker(id) ==
    /\ ActiveKey(id) \in DOMAIN db
    /\ db' = db_delete(db, ActiveKey(id))
    /\ UNCHANGED <<mgr, next_chunk, overflow_checks, pc, local_next_chunk,
                   origin, start, returned, iter_vars,
                   proc_vars, crash_vars, pure_vars>>

\* A write of a key that is no marker.
PutOther(k) ==
    /\ k \notin DOMAIN db
    /\ db' = db_put(db, k, <<>>)
    /\ UNCHANGED <<mgr, next_chunk, overflow_checks, pc, local_next_chunk,
                   origin, start, returned, iter_vars,
                   proc_vars, crash_vars, pure_vars>>

\* db.snapshot(): the contents of the store at this moment.
TakeSnapshot ==
    /\ snapshot = None
    /\ snapshot' = Some(db)
    /\ snap_markers' = {k \in DOMAIN db : Head(k) = 97}
    /\ UNCHANGED <<chunk_vars, active_iter, yielded,
                   pure_vars>>

\* A variant that scans from the first key of the store (IteratorMode::Start).
iter_active_from_start == <<>>

\* The key iter_active seeks to: IteratorMode::From(b"a", Direction::Forward).
iter_active_from == <<97>>

\* A variant that reads the live store.
iter_view_live == db

\* What the DBIterator of iter_active reads: the snapshot it was made from.
iter_view == snapshot[1]

\* DBIterator::next over `view`: the smallest key that is not below `from`
\* and is above the last key returned; None when there is none.
db_iter_next(view, it) ==
    LET rest == {k \in DOMAIN view :
                    /\ ~KeyLt(k, it.from)
                    /\ (it.last = None \/ KeyLt(it.last[1], k))}
    IN  IF rest = {} THEN None
        ELSE Some(CHOOSE k \in rest : \A j \in rest : j = k \/ KeyLt(k, j))

\* ChunkManager::iter_active
IterActive ==
    /\ mgr = "ready"
    /\ snapshot # None
    /\ active_iter = None
    /\ active_iter' = Some([iter |-> [from |-> iter_active_from, last |-> None],
                            fused |-> FALSE])
    /\ UNCHANGED <<chunk_vars, snapshot, yielded, snap_markers,
                   pure_vars>>

\* ActiveChunksIterator::next: the item returned (or a panic of the unwrap
\* of the parse) and the iterator afterwards.
next(self, view) ==
    IF self.fused THEN [panic |-> FALSE, item |-> None, self |-> self]
    ELSE LET kv == db_iter_next(view, self.iter)
             moved == [self EXCEPT !.iter.last = kv]
         IN  IF kv = None
             THEN [panic |-> FALSE, item |-> None,
                   self |-> [self EXCEPT !.fused = TRUE]]
             ELSE IF Head(kv[1]) # 97
             THEN [panic |-> FALSE, item |-> None,
                   self |-> [moved EXCEPT !.fused = TRUE]]
             ELSE LET id == parse_u32(Tail(kv[1]))
                  IN  IF id = None
                      THEN [panic |-> TRUE, item |-> None, self |-> moved]
                      ELSE [panic |-> FALSE, item |-> id, self |-> moved]

IterNext ==
    /\ mgr = "ready"
    /\ active_iter # None
    /\ Len(yielded) < MaxNext
    /\ LET r == next(active_iter[1], iter_view)
       IN  /\ active_iter' = Some(r.self)
           /\ mgr' = IF r.panic THEN "panicked" ELSE mgr
           /\ yielded' = IF r.panic THEN yielded ELSE Append(yielded, r.item)
    /\ UNCHANGED <<db, next_chunk, overflow_checks, pc, local_next_chunk,
                   origin, start, returned, snapshot, snap_markers,
                   proc_vars, crash_vars, pure_vars>>

(***************************************************************************)
(* Term::to_bytes (src/search/term.rs)                                     *)
(***************************************************************************)

\* Largest magnitude of the consecutive i64 inputs around zero.
MaxMag == 3

\* A variant that writes the least significant byte first (LittleEndian).
RECURSIVE write_le(_, _)
write_le(value, n) ==
    IF n = 0 THEN <<>>
    ELSE <<value % 256>> \o write_le(value \div 256, n - 1)

\* WriteBytesExt::write_i64::<BigEndian> / write_u64::<BigEndian>, n = 8:
\* the n low bytes of the two's complement of `value`, most significant
\* first.  \div and % round down, so a negative value sign-extends.
RECURSIVE write_be(_, _)
write_be(value, n) ==
    IF n = 0 THEN <<>>
    ELSE Append(write_be(value \div 256, n - 1), value % 256)

\* Term values: String carries its UTF-8 bytes.  DateTime is not modelled.
TermString(bytes) == [variant |-> "String", value |-> bytes]
TermBoolean(b) == [variant |-> "Boolean", value |-> b]
TermI64(n) == [variant |-> "I64", value |-> n]
TermU64(n) == [variant |-> "U64", value |-> n]

\* Term::to_bytes
to_bytes(self) ==
    CASE self.variant = "String" -> self.value
      [] self.variant = "Boolean" -> IF self.value THEN <<116>> ELSE <<102>>
      [] self.variant = "I64" -> write_be(self.value, 8)
      [] self.variant = "U64" -> write_be(self.value, 8)

\* The i64 values encoded: the ones around zero, the test vectors of
\* term.rs, and the values where a byte of the encoding carries.
I64Inputs ==
    ((0 - MaxMag)..MaxMag)
        \cup {123, -123, 127, 128, -128, -129, 255, 256, -255, -256, -257,
              65535, 65536, -65536, 16777216, -16777216,
              2147483647, -2147483647}

\* Two terms are encoded.
ToBytes ==
    /\ enc_x = None
    /\ enc_x' = Some(to_bytes(TermI64(term_x)))
    /\ enc_y' = Some(to_bytes(TermI64(term_y)))
    /\ UNCHANGED <<term_x, term_y, query_vars, filter_vars, mapping_vars,
                   settings_vars, store_vars>>

(***************************************************************************)
(* Json (rustc_serialize), as query.rs uses it.  An Object is a function   *)
(* from its keys to Json values; F64 is not modelled.                      *)
(***************************************************************************)
JNull == [t |-> "Null", v |-> "null"]
JBoolean(b) == [t |-> "Boolean", v |-> b]
JString(s) == [t |-> "String", v |-> s]
JU64(n) == [t |-> "U64", v |-> n]
JI64(n) == [t |-> "I64", v |-> n]
JArray(items) == [t |-> "Array", v |-> items]
JObject(map) == [t |-> "Object", v |-> map]

as_object(json) == IF json.t = "Object" THEN Some(json.v) ELSE None
as_string(json) == IF json.t = "String" THEN Some(json.v) ELSE None
as_array(json) == IF json.t = "Array" THEN Some(json.v) ELSE None

\* Json's derived PartialEq: the same variant with equal contents.
json_eq(a, b) == a.t = b.t /\ a.v = b.v

\* The keys of the model's objects in the order of BTreeMap<String, Json>
\* (bytewise string order).
KeyOrder ==
    <<"a", "and", "b", "bogus", "field", "fields", "filter", "filtered",
      "match", "multi_match", "not", "or", "prefix", "query", "range",
      "status", "term">>

KeyRank(k) == CHOOSE i \in 1..Len(KeyOrder) : KeyOrder[i] = k

\* object.keys().nth(0)
first_key(object) ==
    IF DOMAIN object = {} THEN None
    ELSE Some(CHOOSE k \in DOMAIN object :
                 \A j \in DOMAIN object : KeyRank(k) <= KeyRank(j))

\* object.get(key)
get(object, key) == IF key \in DOMAIN object THEN Some(object[key]) ELSE None

\* str::starts_with
starts_with(string, prefix) ==
    /\ Len(prefix) <= Len(string)
    /\ SubSeq(string, 1, Len(prefix)) = prefix

\* What a call ends with: a panic (a failed unwrap) or a value.
Panic == [panic |-> TRUE, value |-> "panic"]
Done(value) == [panic |-> FALSE, value |-> value]

(***************************************************************************)
(* Filter (src/query.rs)                                                   *)
(***************************************************************************)
FilterTerm(field, value) == [f |-> "Term", field |-> field, value |-> value]
FilterPrefix(field, value) == [f |-> "Prefix", field |-> field, value |-> value]
FilterAnd(filters) == [f |-> "And", filters |-> filters]
FilterOr(filters) == [f |-> "Or", filters |-> filters]
FilterNot(inner) == [f |-> "Not", filter |-> inner]

\* Filter::matches, the Term arm.
term_matches(field, value, obj) ==
    IF field \in DOMAIN obj THEN json_eq(obj[field], value) ELSE FALSE

\* A variant of the Prefix arm with the operands of starts_with exchanged.
prefix_matches_swapped(field, value, obj) ==
    IF field \in DOMAIN obj
    THEN IF obj[field].t = "String"
         THEN starts_with(value, obj[field].v)
         ELSE FALSE
    ELSE FALSE

\* Filter::matches, the Prefix arm.
prefix_matches(field, value, obj) ==
    IF field \in DOMAIN obj
    THEN IF obj[field].t = "String"
         THEN starts_with(obj[field].v, value)
         ELSE FALSE
    ELSE FALSE

\* Filter::matches.  A Document's data is a Json object, so the unwrap of
\* as_object does not fail.  The loops of the And and Or arms return at the
\* first child that decides the result.
RECURSIVE matches(_, _)
RECURSIVE and_matches(_, _, _)
RECURSIVE or_matches(_, _, _)
and_matches(filters, i, document) ==
    IF i > Len(filters) THEN TRUE
    ELSE IF ~matches(filters[i], document) THEN FALSE
    ELSE and_matches(filters, i + 1, document)

or_matches(filters, i, document) ==
    IF i > Len(filters) THEN FALSE
    ELSE IF matches(filters[i], document) THEN TRUE
    ELSE or_matches(filters, i + 1, document)

matches(self, document) ==
    CASE self.f = "Term" -> term_matches(self.field, self.value, document.v)
      [] self.f = "Prefix" -> prefix_matches(self.field, self.value, document.v)
      [] self.f = "And" -> and_matches(self.filters, 1, document)
      [] self.f = "Or" -> or_matches(self.filters, 1, document)
      [] self.f = "Not" -> ~matches(self.filter, document)

\* A variant of the fallback filter with another field name.
sentinel_filter_renamed == FilterTerm("not_implemented", JString("implemented"))

\* The filter parse_filter returns for a key it does not know.
sentinel_filter == FilterTerm("not", JString("implemented"))

\* parse_filter.  Every unwrap is a panic when it fails: a filter that is
\* no object or has no key, a term or prefix body that is no object or has
\* no key, a prefix value that is no string, an and/or value that is no
\* array, and a panic of a nested parse_filter.
RECURSIVE parse_filter(_)
parse_filter_list(array) ==
    LET parsed == [i \in 1..Len(array) |-> parse_filter(array[i])]
    IN  IF \E i \in 1..Len(array) : parsed[i].panic
        THEN Panic
        ELSE Done([i \in 1..Len(array) |-> parsed[i].value])

parse_filter(json) ==
    IF as_object(json) = None THEN Panic
    ELSE
    LET filter_json == as_object(json)[1]
        key == first_key(filter_json)
    IN
    IF key = None THEN Panic
    ELSE IF key[1] = "term" THEN
        LET body == as_object(filter_json["term"])
        IN  IF body = None THEN Panic
            ELSE IF first_key(body[1]) = None THEN Panic
            ELSE LET field == first_key(body[1])[1]
                 IN  Done(FilterTerm(field, body[1][field]))
    ELSE IF key[1] = "prefix" THEN
        LET body == as_object(filter_json["prefix"])
        IN  IF body = None THEN Panic
            ELSE IF first_key(body[1]) = None THEN Panic
            ELSE LET field == first_key(body[1])[1]
                     value == as_string(body[1][field])
                 IN  IF value = None THEN Panic
                     ELSE Done(FilterPrefix(field, value[1]))
    ELSE IF key[1] = "and" THEN
        LET array == as_array(filter_json["and"])
        IN  IF array = None THEN Panic
            ELSE LET filters == parse_filter_list(array[1])
                 IN  IF filters.panic THEN Panic
                     ELSE Done(FilterAnd(filters.value))
    ELSE IF key[1] = "or" THEN
        LET array == as_array(filter_json["or"])
        IN  IF array = None THEN Panic
            ELSE LET filters == parse_filter_list(array[1])
                 IN  IF filters.panic THEN Panic
                     ELSE Done(FilterOr(filters.value))
    ELSE IF key[1] = "not" THEN
        LET inner == parse_filter(filter_json["not"])
        IN  IF inner.panic THEN Panic ELSE Done(FilterNot(inner.value))
    ELSE Done(sentinel_filter)

(***************************************************************************)
(* Query (src/query.rs)                                                    *)
(***************************************************************************)
QueryMatch(field, query) == [q |-> "Match", field |-> field, query |-> query]
QueryMultiMatch(fields, query) ==
    [q |-> "MultiMatch", fields |-> fields, query |-> query]
QueryFiltered(query, inner) ==
    [q |-> "Filtered", query |-> query, filter |-> inner]

\* QuerySyntaxError; UnknownQueryType carries the key.
SyntaxError(e) == [e |-> e, name |-> ""]
UnknownQueryType(name) == [e |-> "UnknownQueryType", name |-> name]

\* Result<Query, QuerySyntaxError>, or a panic.
Ok(value) == [kind |-> "Ok", value |-> value]
Err(error) == [kind |-> "Err", value |-> error]
Panicked == [kind |-> "Panic", value |-> "panic"]

\* A variant of the default with the field left empty.
match_default_field_empty == ""

\* The field of a match query that names none.
match_default_field == "_all"

\* parse_match_query
parse_match_query(json) ==
    IF as_object(json) = None THEN Err(SyntaxError("ExpectedObject"))
    ELSE
    LET json_object == as_object(json)[1]
        field_json == get(json_object, "field")
        field == IF field_json = None THEN Some(match_default_field)
                 ELSE as_string(field_json[1])
        query_value == get(json_object, "query")
    IN
    IF field = None THEN Err(SyntaxError("ExpectedString"))
    ELSE IF query_value = None THEN Err(SyntaxError("MissingQueryString"))
    ELSE IF as_string(query_value[1]) = None THEN Err(SyntaxError("ExpectedString"))
    ELSE Ok(QueryMatch(field[1], as_string(query_value[1])[1]))

\* parse_multi_match_query.  The elements of "fields" are unwrapped as
\* strings while the array is collected, before "query" is looked at.
parse_multi_match_query(json) ==
    IF as_object(json) = None THEN Err(SyntaxError("ExpectedObject"))
    ELSE
    LET json_object == as_object(json)[1]
        fields_json == get(json_object, "fields")
        query_value == get(json_object, "query")
    IN
    IF fields_json = None THEN Err(SyntaxError("MultiMatchMissingFields"))
    ELSE IF as_array(fields_json[1]) = None THEN Err(SyntaxError("ExpectedArray"))
    ELSE
    LET array == as_array(fields_json[1])[1]
    IN
    IF \E i \in 1..Len(array) : as_string(array[i]) = None THEN Panicked
    ELSE IF query_value = None THEN Err(SyntaxError("MissingQueryString"))
    ELSE IF as_string(query_value[1]) = None THEN Err(SyntaxError("ExpectedString"))
    ELSE Ok(QueryMultiMatch([i \in 1..Len(array) |-> as_string(array[i])[1]],
                            as_string(query_value[1])[1]))

\* parse_query and parse_filtered_query.  The filter is parsed before
\* "query" is looked at; try! hands an error of the nested query on.
RECURSIVE parse_query(_)
parse_filtered_query(json) ==
    IF as_object(json) = None THEN Err(SyntaxError("ExpectedObject"))
    ELSE
    LET json_object == as_object(json)[1]
        filter_json == get(json_object, "filter")
        query_value == get(json_object, "query")
    IN
    IF filter_json = None THEN Err(SyntaxError("FilteredNoFilter"))
    ELSE
    LET inner == parse_filter(filter_json[1])
    IN
    IF inner.panic THEN Panicked
    ELSE IF query_value = None THEN Err(SyntaxError("FilteredNoQuery"))
    ELSE
    LET query == parse_query(query_value[1])
    IN
    IF query.kind = "Ok"
    THEN Ok(QueryFiltered(query.value, inner.value))
    ELSE query

parse_query(json) ==
    IF as_object(json) = None THEN Err(SyntaxError("ExpectedObject"))
    ELSE
    LET json_object == as_object(json)[1]
        key == first_key(json_object)
    IN
    IF key = None THEN Err(SyntaxError("NoQuery"))
    ELSE IF key[1] = "match" THEN parse_match_query(json_object["match"])
    ELSE IF key[1] = "multi_match"
    THEN parse_multi_match_query(json_object["multi_match"])
    ELSE IF key[1] = "filtered" THEN parse_filtered_query(json_object["filtered"])
    ELSE Err(UnknownQueryType(key[1]))

(***************************************************************************)
(* The Json values and Documents the parsers and matches are run on.       *)
(***************************************************************************)
\* Elements of the arrays of an and/or filter.
MaxList == 2
\* Nesting of filtered queries.
MaxNest == 1

\* The object with the keys of `options` (a function from keys to Option)
\* that hold a value.
ObjectOf(options) ==
    JObject([k \in {x \in DOMAIN options : options[x] # None} |-> options[k][1]])

Object1(k, value) == JObject([x \in {k} |-> value])

\* Sequences over `set` of length at most n.
SeqsUpTo(set, n) == UNION {[1..m -> set] : m \in 0..n}

\* Filters: well-formed leaves, a key parse_filter does not know, an object
\* with several keys, and values that make an unwrap fail.
CoreFilterJson ==
    { Object1("term", Object1("a", JU64(1))),
      Object1("term", Object1("b", JU64(2))),
      Object1("prefix", Object1("status", JString("op"))),
      Object1("bogus", JObject(<<>>)) }

LeafFilterJson ==
    CoreFilterJson \cup
    { Object1("term", Object1("status", JString("open"))),
      Object1("term", Object1("not", JString("implemented"))),
      Object1("prefix", Object1("status", JString(""))),
      Object1("range", Object1("a", JU64(1))),
      ObjectOf([bogus |-> Some(JObject(<<>>)),
                term |-> Some(Object1("a", JU64(1)))]),
      ObjectOf([and |-> Some(JArray(<<>>)),
                term |-> Some(Object1("a", JU64(1)))]) }

MalformedFilterJson ==
    { JString("term"), JObject(<<>>),
      Object1("term", JU64(5)), Object1("term", JObject(<<>>)),
      Object1("prefix", Object1("a", JU64(1))),
      Object1("and", Object1("term", Object1("a", JU64(1)))),
      Object1("or", JArray(<<JU64(5)>>)),
      Object1("not", JNull) }

ListFilterJson ==
    {Object1(k, JArray(l)) : k \in {"and", "or"},
                             l \in SeqsUpTo(CoreFilterJson, MaxList)}

NotFilterJson == {Object1("not", x) : x \in LeafFilterJson \cup ListFilterJson}

DeepFilterJson ==
    {Object1(k, JArray(<<Object1("not", x), y>>)) :
        k \in {"and", "or"}, x \in CoreFilterJson, y \in CoreFilterJson}

FilterInputs ==
    LeafFilterJson \cup MalformedFilterJson \cup ListFilterJson
        \cup NotFilterJson \cup DeepFilterJson

\* Documents: objects over the fields a, b, status and not.
Documents ==
    {ObjectOf([a |-> a, b |-> b, status |-> st, not |-> n]) :
        a \in {None, Some(JU64(1)), Some(JU64(2))},
        b \in {None, Some(JU64(2))},
        st \in {None, Some(JString("open")), Some(JString("closed")), Some(JU64(1))},
        n \in {None, Some(JString("implemented")), Some(JString("x"))}}

\* Queries.
MatchBodies ==
    {ObjectOf([field |-> f, query |-> q]) :
        f \in {None, Some(JString("title")), Some(JU64(5))},
        q \in {None, Some(JString("foo")), Some(JU64(7))}}
    \cup {JString("foo")}

MultiMatchBodies ==
    {ObjectOf([fields |-> f, query |-> q]) :
        f \in {None, Some(JArray(<<>>)), Some(JArray(<<JString("title")>>)),
               Some(JArray(<<JString("title"), JString("body")>>)),
               Some(JArray(<<JString("title"), JU64(1)>>)),
               Some(JString("title"))},
        q \in {None, Some(JString("foo")), Some(JU64(7))}}
    \cup {JNull}

FilterBodies ==
    { Object1("term", Object1("a", JU64(1))),
      Object1("bogus", JObject(<<>>)),
      JString("term") }

RECURSIVE QueryJson(_)
QueryJson(depth) ==
    IF depth = 0
    THEN {Object1("match", m) : m \in MatchBodies}
         \cup {Object1("multi_match", m) : m \in MultiMatchBodies}
         \cup { Object1("bogus", JObject(<<>>)),
                Object1("term", Object1("a", JU64(1))),
                JObject(<<>>), JString("match"),
                ObjectOf([bogus |-> Some(JObject(<<>>)),
                          match |-> Some(Object1("query", JString("foo")))]),
                ObjectOf([match |-> Some(Object1("query", JString("foo"))),
                          query |-> Some(JString("foo"))]) }
    ELSE QueryJson(depth - 1)
         \cup {Object1("filtered", ObjectOf([filter |-> f, query |-> q])) :
                  f \in {None} \cup {Some(x) : x \in FilterBodies},
                  q \in {None} \cup {Some(x) : x \in QueryJson(depth - 1)}}
         \cup {Object1("filtered", JNull)}

QueryInputs == QueryJson(MaxNest)

\* parse_query is called.
ParseQuery ==
    /\ query_result = None
    /\ query_result' = Some(parse_query(query_input))
    /\ UNCHANGED <<query_input, term_vars, filter_vars, mapping_vars,
                   settings_vars, store_vars>>

\* parse_filter is called.
ParseFilter ==
    /\ filter = None
    /\ filter' = Some(parse_filter(filter_input))
    /\ UNCHANGED <<filter_input, doc, matched, term_vars, query_vars,
                   mapping_vars, settings_vars, store_vars>>

\* Filter::matches is called on the filter parsed.
Matches ==
    /\ filter # None
    /\ ~filter[1].panic
    /\ matched = None
    /\ matched' = Some(matches(filter[1].value, doc))
    /\ UNCHANGED <<filter_input, doc, filter, term_vars, query_vars,
                   mapping_vars, settings_vars, store_vars>>

(***************************************************************************)
(* 64-bit integers of the mapping layer.  A u64 is four 16-bit limbs, most *)
(* significant first; an i64 is a sign and a magnitude (a u64 of at most   *)
(* 2^63).  The i64 inputs of to_bytes above are small and are plain        *)
(* integers.                                                               *)
(***************************************************************************)
U64FromNat(n) == <<0, 0, n \div LimbBase, n % LimbBase>>

U64_MAX == <<LimbBase - 1, LimbBase - 1, LimbBase - 1, LimbBase - 1>>

I64(neg, mag) == [neg |-> neg, mag |-> mag]

\* 2^64 - n for 0 < n < 2^64: the complement of every limb, plus one.
u64_wrapping_neg(n) ==
    LET c == [i \in 1..4 |-> LimbBase - 1 - n[i]]
    IN  IF c[4] < LimbBase - 1 THEN <<c[1], c[2], c[3], c[4] + 1>>
        ELSE IF c[3] < LimbBase - 1 THEN <<c[1], c[2], c[3] + 1, 0>>
        ELSE IF c[2] < LimbBase - 1 THEN <<c[1], c[2] + 1, 0, 0>>
        ELSE <<(c[1] + 1) % LimbBase, 0, 0, 0>>

\* `num as i64`: the same 64 bits read as two's complement, so that a value
\* of 2^63 or more becomes the negative value num - 2^64.
u64_as_i64(num) ==
    IF num[1] < LimbBase \div 2
    THEN I64(FALSE, num)
    ELSE I64(TRUE, u64_wrapping_neg(num))

Digit(d) == SubSeq("0123456789", d + 1, d + 1)

u64_divmod10(n) ==
    LET d1 == n[1]
        d2 == (d1 % 10) * LimbBase + n[2]
        d3 == (d2 % 10) * LimbBase + n[3]
        d4 == (d3 % 10) * LimbBase + n[4]
    IN  [quot |-> <<d1 \div 10, d2 \div 10, d3 \div 10, d4 \div 10>>,
         rem |-> d4 % 10]

\* u64::to_string
RECURSIVE u64_to_string(_)
u64_to_string(n) ==
    LET qr == u64_divmod10(n)
    IN  IF qr.quot = <<0, 0, 0, 0>>
        THEN Digit(qr.rem)
        ELSE u64_to_string(qr.quot) \o Digit(qr.rem)

\* i64::to_string
i64_to_string(n) ==
    IF n.neg THEN "-" \o u64_to_string(n.mag) ELSE u64_to_string(n.mag)

\* An f64 of the model is a non-negative multiple of one half, held as its
\* number of halves: f64::to_string prints 2.0 as "2" and 1.5 as "1.5".
JF64(halves) == [t |-> "F64", v |-> halves]

f64_to_string(halves) ==
    IF halves % 2 = 0
    THEN u64_to_string(U64FromNat(halves \div 2))
    ELSE u64_to_string(U64FromNat(halves \div 2)) \o ".5"

(***************************************************************************)
(* Field mapping (src/mapping/mod.rs)                                      *)
(***************************************************************************)
Token(term, position) == [term |-> term, position |-> position]

TermDateTime(micros) == [variant |-> "DateTime", value |-> micros]

FieldTypes == {"String", "Integer", "Boolean", "Date"}

lowercase(c) ==
    IF c = "A" THEN "a" ELSE IF c = "B" THEN "b" ELSE IF c = "Y" THEN "y" ELSE c

\* The words of a string: the standard tokenizer and the lowercase filter
\* on the strings of the model (letters, digits, '.', '-' and spaces).
RECURSIVE words(_, _, _)
words(string, i, word) ==
    IF i > Len(string)
    THEN IF word = "" THEN <<>> ELSE <<word>>
    ELSE LET c == SubSeq(string, i, i)
         IN  IF c = " "
             THEN (IF word = "" THEN <<>> ELSE <<word>>) \o words(string, i + 1, "")
             ELSE words(string, i + 1, word \o lowercase(c))

\* self.index_analyzer().initialise(&string), collected: the standard
\* analyzer of a default FieldMapping.
initialise(string) ==
    LET w == words(string, 1, "")
    IN  [i \in 1..Len(w) |-> Token(TermString(w[i]), i)]

\* A variant of parse_boolean that takes every string but "no" as true.
parse_boolean_lenient(json) ==
    IF json.t = "Boolean" THEN json.v
    ELSE IF json.t = "String" THEN json.v # "no"
    ELSE FALSE

\* parse_boolean
parse_boolean(json) ==
    IF json.t = "Boolean" THEN json.v
    ELSE IF json.t = "String"
         THEN IF json.v = "yes" THEN TRUE
              ELSE IF json.v = "no" THEN FALSE
              ELSE FALSE
    ELSE FALSE

\* A variant of join that leaves the separator out.
RECURSIVE join_no_separator(_, _)
join_no_separator(strings, sep) ==
    IF Len(strings) = 0 THEN ""
    ELSE strings[1] \o join_no_separator(Tail(strings), sep)

\* strings.join(sep)
RECURSIVE join(_, _)
join(strings, sep) ==
    IF Len(strings) = 0 THEN ""
    ELSE IF Len(strings) = 1 THEN strings[1]
    ELSE strings[1] \o sep \o join(Tail(strings), sep)

\* The loop over an array's items: the strings seen so far, or a rejection
\* at the first item that is neither a string nor null.
RECURSIVE pack_strings(_, _, _)
pack_strings(array, i, strings) ==
    IF i > Len(array) THEN [rejected |-> FALSE, strings |-> strings]
    ELSE IF array[i].t = "String"
         THEN pack_strings(array, i + 1, Append(strings, array[i].v))
    ELSE IF array[i].t = "Null"
         THEN pack_strings(array, i + 1, strings)
    ELSE [rejected |-> TRUE, strings |-> strings]

\* string.parse::<DateTime<UTC>>() on the strings of the model: the one that
\* is a date and time gives its instant in microseconds (a u64).
parse_datetime(string) ==
    IF string = "2016-07-23T16:15:00+01:00"
    THEN Some(<<5, 14415, 959, 25856>>)
    ELSE None

\* FieldType::Integer
process_integer(json) ==
    IF json.t = "U64" THEN Some(<<Token(TermI64(u64_as_i64(json.v)), 1)>>)
    ELSE IF json.t = "I64" THEN Some(<<Token(TermI64(json.v), 1)>>)
    ELSE None

\* A variant of the Boolean arm that numbers the token from 0.
process_boolean_from_0(json) ==
    Some(<<Token(TermBoolean(parse_boolean(json)), 0)>>)

\* FieldType::Boolean
process_boolean(json) ==
    Some(<<Token(TermBoolean(parse_boolean(json)), 1)>>)

\* FieldType::Date
process_date(json) ==
    IF json.t = "String"
    THEN LET date_parsed == parse_datetime(json.v)
         IN  IF date_parsed = None
             THEN None
             ELSE Some(<<Token(TermDateTime(date_parsed[1]), 1)>>)
    ELSE None

\* FieldMapping::process_value_for_index, for a mapping of the given type
\* with the standard analyzer.
RECURSIVE process_value_for_index(_, _)
process_value_for_index(data_type, json) ==
    IF json_eq(json, JNull) THEN None
    ELSE IF data_type = "String"
         THEN IF json.t = "String" THEN Some(initialise(json.v))
              ELSE IF json.t = "I64"
                   THEN process_value_for_index(data_type, JString(i64_to_string(json.v)))
              ELSE IF json.t = "U64"
                   THEN process_value_for_index(data_type, JString(u64_to_string(json.v)))
              ELSE IF json.t = "F64"
                   THEN process_value_for_index(data_type, JString(f64_to_string(json.v)))
              ELSE IF json.t = "Array"
                   THEN LET packed == pack_strings(json.v, 1, <<>>)
                        IN  IF packed.rejected
                            THEN None
                            ELSE process_value_for_index(
                                     data_type, JString(join(packed.strings, " ")))
              ELSE None
    ELSE IF data_type = "Integer" THEN process_integer(json)
    ELSE IF data_type = "Boolean" THEN process_boolean(json)
    ELSE process_date(json)

\* Elements per array handed to process_value_for_index.
MaxArray == 3

MapValues ==
    LET scalars ==
            {JNull, JBoolean(TRUE), JBoolean(FALSE), JF64(3), JF64(4), JObject(<<>>)}
            \cup {JString(s) : s \in {"", "yes", "no", "Yes", "true", "a", "a b", "A  b",
                                      "2016-07-23T16:15:00+01:00"}}
            \cup {JU64(n) : n \in {U64FromNat(0), U64FromNat(1), U64FromNat(123),
                                   <<32767, 65535, 65535, 65535>>, <<32768, 0, 0, 0>>,
                                   U64_MAX}}
            \cup {JI64(n) : n \in {I64(TRUE, U64FromNat(1)), I64(TRUE, U64FromNat(123)),
                                   I64(TRUE, <<32768, 0, 0, 0>>),
                                   I64(FALSE, U64FromNat(5))}}
        items ==
            {JNull, JString("a"), JString("b c"), JString(""), JU64(U64FromNat(1)),
             JBoolean(TRUE), JArray(<<JString("a")>>)}
    IN  scalars \cup {JArray(a) : a \in SeqsUpTo(items, MaxArray)}

\* process_value_for_index is called.
ProcessValueForIndex ==
    /\ map_result = None
    /\ map_result' = Some(process_value_for_index(map_type, map_value))
    /\ UNCHANGED <<map_type, map_value, bool_result, term_vars, query_vars,
                   filter_vars, settings_vars, store_vars>>

\* parse_boolean is called.
ParseBoolean ==
    /\ bool_result = None
    /\ bool_result' = Some(parse_boolean(map_value))
    /\ UNCHANGED <<map_type, map_value, map_result, term_vars, query_vars,
                   filter_vars, settings_vars, store_vars>>

(***************************************************************************)
(* Index settings (src/rusticsearch/index/settings_parser/mod.rs).  The    *)
(* parsers of one tokenizer, one filter and one analyzer entry and the     *)
(* registry live in other modules of the repository; they are modelled on  *)
(* the specification and on what this module's tests expect of them.       *)
(***************************************************************************)
\* Errors of one entry: TokenizerParseError, FilterParseError and
\* AnalyzerParseError share this shape.
EntryError(e, name) == [e |-> e, name |-> name]

UnrecognisedType(type) == EntryError("UnrecognisedType", type)

\* IndexSettingsParseError
ExpectedObject == [e |-> "ExpectedObject", name |-> "", inner |-> EntryError("", "")]
TokenizerParseError(name, e) == [e |-> "TokenizerParseError", name |-> name, inner |-> e]
FilterParseError(name, e) == [e |-> "FilterParseError", name |-> name, inner |-> e]
AnalyzerParseError(name, e) == [e |-> "AnalyzerParseError", name |-> name, inner |-> e]

NGram(min_size, max_size, edge) ==
    [spec |-> "NGram", min_size |-> min_size, max_size |-> max_size, edge |-> edge]

\* min_gram, max_gram and side of an nGram or edgeNGram entry.
ngram_of(object, is_edge) ==
    LET min_gram == IF "min_gram" \in DOMAIN object /\ object["min_gram"].t = "U64"
                    THEN object["min_gram"].v ELSE 1
        max_gram == IF "max_gram" \in DOMAIN object /\ object["max_gram"].t = "U64"
                    THEN object["max_gram"].v ELSE 2
        back == "side" \in DOMAIN object /\ json_eq(object["side"], JString("back"))
    IN  NGram(min_gram, max_gram,
              IF ~is_edge THEN "Neither" ELSE IF back THEN "Right" ELSE "Left")

\* The type of an entry, or the error of an entry that declares none.
type_of(data) ==
    IF data.t # "Object" THEN Err(EntryError("ExpectedObject", ""))
    ELSE IF "type" \notin DOMAIN data.v THEN Err(EntryError("ExpectedKey", "type"))
    ELSE IF data.v["type"].t # "String" THEN Err(EntryError("ExpectedString", ""))
    ELSE Ok(data.v["type"].v)

\* analysis_tokenizer::parse
parse_tokenizer(data) ==
    LET type == type_of(data)
    IN  IF type.kind = "Err" THEN type
        ELSE IF type.value = "standard" THEN Ok([spec |-> "Standard"])
        ELSE IF type.value = "nGram" THEN Ok(ngram_of(data.v, FALSE))
        ELSE IF type.value = "edgeNGram" THEN Ok(ngram_of(data.v, TRUE))
        ELSE Err(UnrecognisedType(type.value))

\* analysis_filter::parse
parse_token_filter(data) ==
    LET type == type_of(data)
    IN  IF type.kind = "Err" THEN type
        ELSE IF type.value = "lowercase" THEN Ok([spec |-> "Lowercase"])
        ELSE IF type.value = "asciifolding" THEN Ok([spec |-> "ASCIIFolding"])
        ELSE IF type.value = "nGram" THEN Ok(ngram_of(data.v, FALSE))
        ELSE IF type.value = "edgeNGram" THEN Ok(ngram_of(data.v, TRUE))
        ELSE Err(UnrecognisedType(type.value))

\* analysis_analyzer::parse: a custom analyzer names a tokenizer of the
\* registry.
parse_analyzer(data, registry) ==
    IF data.t # "Object" THEN Err(EntryError("ExpectedObject", ""))
    ELSE IF "tokenizer" \notin DOMAIN data.v
         THEN Err(EntryError("ExpectedKey", "tokenizer"))
    ELSE IF data.v["tokenizer"].t # "String" THEN Err(EntryError("ExpectedString", ""))
    ELSE LET name == data.v["tokenizer"].v
         IN  IF name = "standard"
             THEN Ok([tokenizer |-> [spec |-> "Standard"]])
             ELSE IF name \in DOMAIN registry.tokenizers
             THEN Ok([tokenizer |-> registry.tokenizers[name]])
             ELSE Err(EntryError("UnrecognisedTokenizer", name))

\* AnalyzerRegistry::insert_tokenizer, insert_filter, insert
insert(map, name, item) ==
    [k \in DOMAIN map \cup {name} |-> IF k = name THEN item ELSE map[k]]

\* The names of the entries of the model, in the order a BTreeMap keeps
\* them.
EntryOrder == <<"bad", "edge", "ngram">>

entry_names(object) == SelectSeq(EntryOrder, LAMBDA k : k \in DOMAIN object)

\* A variant of the tokenizer loop that passes over an entry that does not
\* parse.
RECURSIVE parse_tokenizers_skipping(_, _, _)
parse_tokenizers_skipping(registry, tokenizer_data, names) ==
    IF Len(names) = 0 THEN [error |-> None, registry |-> registry]
    ELSE LET name == names[1]
             tokenizer == parse_tokenizer(tokenizer_data[name])
         IN  IF tokenizer.kind = "Err"
             THEN parse_tokenizers_skipping(registry, tokenizer_data, Tail(names))
             ELSE parse_tokenizers_skipping(
                      [registry EXCEPT !.tokenizers = insert(@, name, tokenizer.value)],
                      tokenizer_data, Tail(names))

\* parse, the loop over the tokenizer entries: the first entry that does not
\* parse ends it with TokenizerParseError(name, e); the entries before it
\* are in the registry by then.
RECURSIVE parse_tokenizers(_, _, _)
parse_tokenizers(registry, tokenizer_data, names) ==
    IF Len(names) = 0 THEN [error |-> None, registry |-> registry]
    ELSE LET name == names[1]
             tokenizer == parse_tokenizer(tokenizer_data[name])
         IN  IF tokenizer.kind = "Err"
             THEN [error |-> Some(TokenizerParseError(name, tokenizer.value)),
                   registry |-> registry]
             ELSE parse_tokenizers(
                      [registry EXCEPT !.tokenizers = insert(@, name, tokenizer.value)],
                      tokenizer_data, Tail(names))

\* parse, the loop over the filter entries.
RECURSIVE parse_token_filters(_, _, _)
parse_token_filters(registry, filter_data, names) ==
    IF Len(names) = 0 THEN [error |-> None, registry |-> registry]
    ELSE LET name == names[1]
             token_filter == parse_token_filter(filter_data[name])
         IN  IF token_filter.kind = "Err"
             THEN [error |-> Some(FilterParseError(name, token_filter.value)),
                   registry |-> registry]
             ELSE parse_token_filters(
                      [registry EXCEPT !.filters = insert(@, name, token_filter.value)],
                      filter_data, Tail(names))

\* parse, the loop over the analyzer entries.
RECURSIVE parse_analyzers(_, _, _)
parse_analyzers(registry, analyzer_data, names) ==
    IF Len(names) = 0 THEN [error |-> None, registry |-> registry]
    ELSE LET name == names[1]
             analyzer == parse_analyzer(analyzer_data[name], registry)
         IN  IF analyzer.kind = "Err"
             THEN [error |-> Some(AnalyzerParseError(name, analyzer.value)),
                   registry |-> registry]
             ELSE parse_analyzers(
                      [registry EXCEPT !.analyzers = insert(@, name, analyzer.value)],
                      analyzer_data, Tail(names))

\* parse(index_settings, data): the result, and index_settings.analyzers as
\* the call leaves it.
parse(registry, data) ==
    IF data.t # "Object" THEN [result |-> Err(ExpectedObject), registry |-> registry]
    ELSE IF "settings" \notin DOMAIN data.v
         THEN [result |-> Ok("()"), registry |-> registry]
    ELSE IF data.v["settings"].t # "Object"
         THEN [result |-> Err(ExpectedObject), registry |-> registry]
    ELSE IF "analysis" \notin DOMAIN data.v["settings"].v
         THEN [result |-> Ok("()"), registry |-> registry]
    ELSE IF data.v["settings"].v["analysis"].t # "Object"
         THEN [result |-> Err(ExpectedObject), registry |-> registry]
    ELSE LET analysis == data.v["settings"].v["analysis"].v
             \* One section: absent, not an object, or its loop.
             section(reg, key, loop(_, _, _)) ==
                 IF key \notin DOMAIN analysis THEN [error |-> None, registry |-> reg]
                 ELSE IF analysis[key].t # "Object"
                      THEN [error |-> Some(ExpectedObject), registry |-> reg]
                 ELSE loop(reg, analysis[key].v, entry_names(analysis[key].v))
             t == section(registry, "tokenizer", parse_tokenizers)
         IN  IF t.error # None
             THEN [result |-> Err(t.error[1]), registry |-> t.registry]
             ELSE LET f == section(t.registry, "filter", parse_token_filters)
                  IN  IF f.error # None
                      THEN [result |-> Err(f.error[1]), registry |-> f.registry]
                      ELSE LET a == section(f.registry, "analyzer", parse_analyzers)
                           IN  IF a.error # None
                               THEN [result |-> Err(a.error[1]), registry |-> a.registry]
                               ELSE [result |-> Ok("()"), registry |-> a.registry]

\* Entries per section of the settings handed to parse.
MaxEntries == 2

\* One entry: of a type both kinds know, of a type one kind knows, of a
\* type none knows, and without a type.
EntryData ==
    { ObjectOf([type |-> Some(JString("nGram")), min_gram |-> Some(JU64(3)),
                max_gram |-> Some(JU64(15))]),
      ObjectOf([type |-> Some(JString("edgeNGram")), side |-> Some(JString("back"))]),
      Object1("type", JString("standard")),
      Object1("type", JString("foo")),
      Object1("min_gram", JU64(3)) }

Sections ==
    {JString("x")} \cup
    UNION { {JObject(m) : m \in [names -> EntryData]} :
              names \in {n \in SUBSET {EntryOrder[i] : i \in 1..Len(EntryOrder)} :
                            Cardinality(n) <= MaxEntries} }

SettingsInputs ==
    { JString("x"), JObject(<<>>), Object1("settings", JString("x")),
      Object1("settings", JObject(<<>>)),
      Object1("settings", Object1("analysis", JString("x"))),
      Object1("settings", Object1("analysis", JObject(<<>>))) }
    \cup { Object1("settings", Object1("analysis", JObject(a))) :
             a \in UNION { [keys -> Sections] : keys \in SUBSET {"tokenizer", "filter"} } }
    \cup { Object1("settings", Object1("analysis",
               JObject([k \in {"tokenizer", "analyzer"} |->
                           IF k = "tokenizer" THEN t ELSE a]))) :
             t \in Sections,
             a \in { JObject(<<>>),
                     Object1("edge", Object1("tokenizer", JString("edge"))),
                     Object1("edge", Object1("tokenizer", JString("standard"))) } }

\* parse is called on IndexSettings::default().
ParseSettings ==
    /\ settings_result = None
    /\ LET r == parse([tokenizers |-> reg_tokenizers, filters |-> reg_filters,
                       analyzers |-> reg_analyzers], settings_input)
       IN  /\ settings_result' = Some(r.result)
           /\ reg_tokenizers' = r.registry.tokenizers
           /\ reg_filters' = r.registry.filters
           /\ reg_analyzers' = r.registry.analyzers
    /\ UNCHANGED <<settings_input, term_vars, query_vars, filter_vars, mapping_vars,
                   store_vars>>

(***************************************************************************)
(* Specifications                                                          *)
(***************************************************************************)

\* Values found under ".next_chunk" when a store is opened: "1", "7",
\* "007", "4294967294", "4294967295", "4294967296", "", "x", "-1", b"\xff".
StoredCounters ==
    { <<49>>, <<55>>, <<48, 48, 55>>,
      <<52, 50, 57, 52, 57, 54, 55, 50, 57, 52>>,
      <<52, 50, 57, 52, 57, 54, 55, 50, 57, 53>>,
      <<52, 50, 57, 52, 57, 54, 55, 50, 57, 54>>,
      <<>>, <<120>>, <<45, 49>>, <<255>> }

StoreOf(keys, counter) ==
    [k \in keys \cup (IF counter = None THEN {} ELSE {NEXT_CHUNK_KEY}) |->
        IF k = NEXT_CHUNK_KEY THEN counter[1] ELSE <<>>]

InitStore ==
    /\ mgr = "none"
    /\ next_chunk = U32FromNat(0)
    /\ pc = "idle"
    /\ local_next_chunk = U32FromNat(0)
    /\ origin = "none"
    /\ start = None
    /\ returned = <<>>
    /\ snapshot = None
    /\ active_iter = None
    /\ yielded = <<>>
    /\ snap_markers = {}
    /\ caller = None
    /\ returned_by = <<>>
    /\ crashes = 0
    /\ crash_at = 0
    /\ interrupted = None

\* The parts of the state a specification does not use.
StoreIdle ==
    /\ InitStore
    /\ allocators = {1}
    /\ overflow_checks = FALSE
    /\ db = StoreOf({}, None)

TermIdle ==
    /\ term_x = 0
    /\ term_y = 0
    /\ enc_x = None
    /\ enc_y = None

QueryIdle ==
    /\ query_input = None
    /\ query_result = None

FilterIdle ==
    /\ filter_input = None
    /\ doc = None
    /\ filter = None
    /\ matched = None

MappingIdle ==
    /\ map_type = "String"
    /\ map_value = None
    /\ map_result = None
    /\ bool_result = None

SettingsIdle ==
    /\ settings_input = None
    /\ reg_tokenizers = <<>>
    /\ reg_filters = <<>>
    /\ reg_analyzers = <<>>
    /\ settings_result = None

\* Allocation: a store with or without a counter, a manager made by new or
\* open, one caller of new_chunk.
Init ==
    /\ InitStore
    /\ allocators = {1}
    /\ TermIdle /\ QueryIdle /\ FilterIdle /\ MappingIdle /\ SettingsIdle
    /\ overflow_checks \in BOOLEAN
    /\ \E c \in {None} \cup {Some(v) : v \in StoredCounters} : db = StoreOf({}, c)

Next ==
    \/ New
    \/ Open
    \/ NewChunkFetchAdd
    \/ NewChunkPut

Spec == Init /\ [][Next]_vars

\* Enumeration: markers and other keys come and go while one caller
\* allocates and one snapshot is enumerated.
InitActive ==
    /\ InitStore
    /\ allocators = {1}
    /\ TermIdle /\ QueryIdle /\ FilterIdle /\ MappingIdle /\ SettingsIdle
    /\ overflow_checks = FALSE
    /\ \E m \in SUBSET MarkerIds, o \in SUBSET OtherKeys :
            db = StoreOf({ActiveKey(id) : id \in m} \cup o, None)

NextActive ==
    \/ New
    \/ NewChunkFetchAdd
    \/ NewChunkPut
    \/ \E id \in MarkerIds : PutMarker(id)
    \/ \E id \in MarkerIds : DeleteMarker(id)
    \/ \E k \in OtherKeys : PutOther(k)
    \/ TakeSnapshot
    \/ IterActive
    \/ IterNext

SpecActive == InitActive /\ [][NextActive]_vars

\* Allocation by several threads on one manager.  A thread that can take a
\* step takes it sooner or later.
InitAlloc ==
    /\ InitStore
    /\ allocators = 1..MaxAllocators
    /\ TermIdle /\ QueryIdle /\ FilterIdle /\ MappingIdle /\ SettingsIdle
    /\ overflow_checks \in BOOLEAN
    /\ \E c \in {None} \cup {Some(v) : v \in StoredCounters} : db = StoreOf({}, c)

NextAlloc ==
    \/ New
    \/ Open
    \/ NewChunkFetchAdd
    \/ NewChunkPut

SpecAlloc == InitAlloc /\ [][NextAlloc]_vars /\ WF_vars(NextAlloc)

\* Allocation by one thread, with crashes of the process and reopening.
InitCrash ==
    /\ InitStore
    /\ allocators = {1}
    /\ TermIdle /\ QueryIdle /\ FilterIdle /\ MappingIdle /\ SettingsIdle
    /\ overflow_checks \in BOOLEAN
    /\ \E c \in {None} \cup {Some(v) : v \in StoredCounters} : db = StoreOf({}, c)

NextCrash ==
    \/ NewBeforeCrash
    \/ Open
    \/ NewChunkFetchAdd
    \/ NewChunkPut
    \/ Crash

SpecCrash == InitCrash /\ [][NextCrash]_vars

\* Encoding: a pair of i64 terms is encoded.
InitTerm ==
    /\ StoreIdle /\ QueryIdle /\ FilterIdle /\ MappingIdle /\ SettingsIdle
    /\ term_x \in I64Inputs
    /\ term_y \in I64Inputs
    /\ enc_x = None
    /\ enc_y = None

NextTerm == ToBytes

SpecTerm == InitTerm /\ [][NextTerm]_vars

\* Query parsing: one Json value is parsed.
InitQuery ==
    /\ StoreIdle /\ TermIdle /\ FilterIdle /\ MappingIdle /\ SettingsIdle
    /\ query_input \in QueryInputs
    /\ query_result = None

NextQuery == ParseQuery

SpecQuery == InitQuery /\ [][NextQuery]_vars

\* Filters: one Json value is parsed and the filter is run on one Document.
InitFilter ==
    /\ StoreIdle /\ TermIdle /\ QueryIdle /\ MappingIdle /\ SettingsIdle
    /\ filter_input \in FilterInputs
    /\ doc \in Documents
    /\ filter = None
    /\ matched = None

NextFilter ==
    \/ ParseFilter
    \/ Matches

SpecFilter == InitFilter /\ [][NextFilter]_vars

\* Field mapping: one Json value is processed for a field of one type, and
\* coerced to a boolean.
InitMapping ==
    /\ StoreIdle /\ TermIdle /\ QueryIdle /\ FilterIdle /\ SettingsIdle
    /\ map_type \in FieldTypes
    /\ map_value \in MapValues
    /\ map_result = None
    /\ bool_result = None

NextMapping ==
    \/ ProcessValueForIndex
    \/ ParseBoolean

SpecMapping == InitMapping /\ [][NextMapping]_vars

\* Index settings: one Json value is parsed into the registries of
\* IndexSettings::default().
InitSettings ==
    /\ StoreIdle /\ TermIdle /\ QueryIdle /\ FilterIdle /\ MappingIdle
    /\ settings_input \in SettingsInputs
    /\ reg_tokenizers = <<>>
    /\ reg_filters = <<>>
    /\ reg_analyzers = <<>>
    /\ settings_result = None

NextSettings == ParseSettings

SpecSettings == InitSettings /\ [][NextSettings]_vars

(***************************************************************************)
(* References the claims are stated against.  They are written without     *)
(* the operators above: plain integers where the values are small, and a   *)
(* table of known values where they are not.                               *)
(***************************************************************************)

\* The value of a u32 below 2^31 as an integer.
NatOf(a) == a[1] * LimbBase + a[2]

\* The decimal digits of a natural number.
RECURSIVE NatDigits(_)
NatDigits(n) ==
    IF n < 10 THEN <<48 + n>> ELSE Append(NatDigits(n \div 10), 48 + (n % 10))

\* The value of a short string of ASCII digits.
RECURSIVE DigitsValue(_)
DigitsValue(ds) ==
    IF Len(ds) = 0 THEN 0
    ELSE DigitsValue(SubSeq(ds, 1, Len(ds) - 1)) * 10 + (ds[Len(ds)] - 48)

\* b is a + 1, with no wrap: u32::MAX has no successor.
IsSucc(a, b) ==
    \/ b[1] = a[1] /\ b[2] = a[2] + 1 /\ b[2] < LimbBase
    \/ a[2] = LimbBase - 1 /\ b[2] = 0 /\ b[1] = a[1] + 1 /\ b[1] < LimbBase

\* What the stored counters of StoredCounters denote as a u32, if anything:
\* "1", "7", "007", "4294967294" and "4294967295" do; "4294967296", "",
\* "x", "-1" and b"\xff" do not.
StoredCounterValue(bytes) ==
    CASE bytes = <<49>> -> Some(<<0, 1>>)
      [] bytes = <<55>> -> Some(<<0, 7>>)
      [] bytes = <<48, 48, 55>> -> Some(<<0, 7>>)
      [] bytes = <<52, 50, 57, 52, 57, 54, 55, 50, 57, 52>> -> Some(<<65535, 65534>>)
      [] bytes = <<52, 50, 57, 52, 57, 54, 55, 50, 57, 53>> -> Some(<<65535, 65535>>)
      [] OTHER -> None

\* The marker keys among a set of keys, and the i-th of them in key order.
MarkersOf(keys) == {k \in keys : Len(k) > 0 /\ k[1] = 97}

KthMarker(markers, i) ==
    CHOOSE k \in markers : Cardinality({j \in markers : KeyLt(j, k)}) = i - 1

\* What the i-th call of next should return for these marker keys.
ExpectedItem(markers, i) ==
    IF i <= Cardinality(markers)
    THEN Some(U32FromNat(DigitsValue(Tail(KthMarker(markers, i)))))
    ELSE None

(***************************************************************************)
(* Claims                                                                  *)
(***************************************************************************)

\* C1 (as stated): the first id returned by new_chunk is the start value
\* fixed by new/open, and every later id is greater than, and exactly one
\* more than, the id before it.
C1_StrictlyIncreasing ==
    /\ Len(returned) >= 1 => start = Some(returned[1])
    /\ \A i \in 1..(Len(returned) - 1) :
          /\ U32Lt(returned[i], returned[i + 1])
          /\ IsSucc(returned[i], returned[i + 1])

\* C1 (amended): the first id returned is the start value; every later id
\* is exactly one more than the id before it as long as that id is below
\* u32::MAX; the id after u32::MAX is 0.
C1_IncreasingBelowMax ==
    /\ Len(returned) >= 1 => start = Some(returned[1])
    /\ \A i \in 1..(Len(returned) - 1) :
          IF returned[i] # <<65535, 65535>>
          THEN /\ U32Lt(returned[i], returned[i + 1])
               /\ IsSucc(returned[i], returned[i + 1])
          ELSE returned[i + 1] = <<0, 0>>

C1_Witness ==
    /\ origin = "open"
    /\ returned = <<(<<0, 7>>), (<<0, 8>>), (<<0, 9>>)>>

\* C2: after new, once new_chunk has returned id k, the value stored under
\* ".next_chunk" is the decimal string of k + 1.
C2_DurableCounter ==
    (origin = "new" /\ Len(returned) >= 1) =>
        /\ NEXT_CHUNK_KEY \in DOMAIN db
        /\ db[NEXT_CHUNK_KEY] = NatDigits(NatOf(returned[Len(returned)]) + 1)

C2_Witness ==
    /\ origin = "new"
    /\ returned = <<(<<0, 1>>), (<<0, 2>>), (<<0, 3>>)>>
    /\ db[NEXT_CHUNK_KEY] = <<52>>

\* C3: the calls of next return, in ascending key order, the decimal ids
\* of the snapshot's keys that begin with 'a', and None from then on.
C3_Enumeration ==
    active_iter # None =>
        \A i \in 1..Len(yielded) :
            yielded[i] = ExpectedItem(MarkersOf(DOMAIN snapshot[1]), i)

C3_Witness ==
    /\ snapshot # None
    /\ MarkersOf(DOMAIN snapshot[1]) = {<<97, 49>>, <<97, 50>>, <<97, 53>>}
    /\ <<100, 49>> \in DOMAIN snapshot[1]
    /\ yielded = <<Some(<<0, 1>>), Some(<<0, 2>>), Some(<<0, 5>>), None, None>>

\* C4: whatever is written after the snapshot was taken, every id yielded
\* is the id of a marker present when the snapshot was taken, and once next
\* has returned None every such marker's id has been yielded exactly once.
C4_SnapshotIsolation ==
    LET ids == {i \in 1..Len(yielded) : yielded[i] # None}
    IN  /\ \A i \in ids : <<97>> \o NatDigits(NatOf(yielded[i][1])) \in snap_markers
        /\ \A i, j \in ids : yielded[i] = yielded[j] => i = j
        /\ (\E i \in 1..Len(yielded) : yielded[i] = None) =>
              Cardinality(ids) = Cardinality(snap_markers)

C4_Witness ==
    /\ snapshot # None
    /\ NEXT_CHUNK_KEY \in DOMAIN snapshot[1]
    /\ snapshot[1][NEXT_CHUNK_KEY] # db[NEXT_CHUNK_KEY]
    /\ snap_markers \ DOMAIN db # {}
    /\ MarkersOf(DOMAIN db) \ snap_markers # {}
    /\ Cardinality(snap_markers) >= 2
    /\ Len(yielded) = Cardinality(snap_markers) + 1
    /\ yielded[Len(yielded)] = None

\* What the claim says of a manager just returned by open.
C5_AsStated ==
    IF NEXT_CHUNK_KEY \notin DOMAIN db
    THEN mgr = "ready" /\ next_chunk = <<0, 1>>
    ELSE LET n == StoredCounterValue(db[NEXT_CHUNK_KEY])
         IN  IF n # None
             THEN mgr = "ready" /\ next_chunk = n[1]
             ELSE mgr = "ready" /\ next_chunk = <<0, 1>>

\* The same with a panic where the stored value denotes no u32.
C5_Amended ==
    IF NEXT_CHUNK_KEY \notin DOMAIN db
    THEN mgr = "ready" /\ next_chunk = <<0, 1>>
    ELSE LET n == StoredCounterValue(db[NEXT_CHUNK_KEY])
         IN  IF n # None
             THEN mgr = "ready" /\ next_chunk = n[1]
             ELSE mgr = "panicked"

\* C5 (as stated): open resumes from the stored counter when it denotes an
\* unsigned integer, and starts at 1, without failing, when the key is
\* absent or its value does not.
C5_OpenFallsBack ==
    [][(mgr = "none" /\ origin' = "open") => C5_AsStated']_vars

\* C5 (amended): open resumes from the stored counter when it denotes a
\* u32, starts at 1 when the key is absent, and panics when the key holds
\* anything else.
C5_OpenResumesOrPanics ==
    [][(mgr = "none" /\ origin' = "open") => C5_Amended']_vars

C5_Witness ==
    /\ origin = "open"
    /\ mgr = "panicked"
    /\ db[NEXT_CHUNK_KEY] = <<120>>

\* a is below b in the lexicographic order of byte strings.
LexLess(a, b) ==
    \/ \E i \in 1..Len(a) :
          /\ i <= Len(b)
          /\ \A j \in 1..(i - 1) : a[j] = b[j]
          /\ a[i] < b[i]
    \/ Len(a) < Len(b) /\ \A j \in 1..Len(a) : a[j] = b[j]

\* C6: the encodings of two non-negative i64 values compare as the values
\* do, and the encoding of a negative value compares greater than the
\* encoding of a non-negative one.
C6_I64Order ==
    enc_x # None =>
        /\ (0 <= term_x /\ term_x < term_y) => LexLess(enc_x[1], enc_y[1])
        /\ (term_x < 0 /\ 0 <= term_y) => LexLess(enc_y[1], enc_x[1])

C6_Witness ==
    /\ term_x = -123
    /\ term_y = 123
    /\ enc_x = Some(<<255, 255, 255, 255, 255, 255, 255, 133>>)
    /\ enc_y = Some(<<0, 0, 0, 0, 0, 0, 0, 123>>)

\* The key of an object with a single key.
OnlyKey(json) == CHOOSE k \in DOMAIN json.v : TRUE

HasOneKey(json) == json.t = "Object" /\ Cardinality(DOMAIN json.v) = 1

IsStringAt(object, k) == k \in DOMAIN object /\ object[k].t = "String"

\* C7: on a single-key object, parse_query gives Match{field, query} for
\* {"match": m}, with m's "field", or "_all" when m has none, and m's
\* "query"; and UnknownQueryType(key) for a key that is none of match,
\* multi_match and filtered.
C7_Dispatch ==
    (query_result # None /\ HasOneKey(query_input)) =>
        LET key == OnlyKey(query_input)
            m == query_input.v[key]
            r == query_result[1]
        IN  /\ ( /\ key = "match"
                 /\ m.t = "Object"
                 /\ IsStringAt(m.v, "query")
                 /\ ("field" \in DOMAIN m.v => IsStringAt(m.v, "field")) ) =>
                    /\ r.kind = "Ok"
                    /\ r.value =
                         [q |-> "Match",
                          field |-> IF "field" \in DOMAIN m.v
                                    THEN m.v["field"].v ELSE "_all",
                          query |-> m.v["query"].v]
            /\ key \notin {"match", "multi_match", "filtered"} =>
                    /\ r.kind = "Err"
                    /\ r.value = [e |-> "UnknownQueryType", name |-> key]

C7_Witness ==
    /\ query_input = Object1("match", Object1("query", JString("foo")))
    /\ query_result = Some(Ok([q |-> "Match", field |-> "_all", query |-> "foo"]))

IsErr(r, e) == r.kind = "Err" /\ r.value = [e |-> e, name |-> ""]

IsArrayAt(object, k) == k \in DOMAIN object /\ object[k].t = "Array"

AllStrings(array) == \A i \in 1..Len(array) : array[i].t = "String"

\* C8: parse_query returns an error, never Ok and never a panic, whenever
\* a required key is missing or malformed: the error named for a missing
\* key, some error for "fields" that is empty or holds a non-string, and
\* the error of the nested query of filtered, unchanged.
C8_AlwaysError ==
    (query_result # None /\ HasOneKey(query_input)
        /\ query_input.v[OnlyKey(query_input)].t = "Object") =>
        LET key == OnlyKey(query_input)
            m == query_input.v[key].v
            r == query_result[1]
        IN  /\ ( /\ key = "match"
                 /\ "query" \notin DOMAIN m
                 /\ ("field" \in DOMAIN m => IsStringAt(m, "field")) ) =>
                    IsErr(r, "MissingQueryString")
            /\ (key = "multi_match" /\ "fields" \notin DOMAIN m) =>
                    IsErr(r, "MultiMatchMissingFields")
            /\ ( /\ key = "multi_match"
                 /\ IsArrayAt(m, "fields")
                 /\ Len(m["fields"].v) > 0
                 /\ AllStrings(m["fields"].v)
                 /\ "query" \notin DOMAIN m ) =>
                    IsErr(r, "MissingQueryString")
            /\ ( /\ key = "multi_match"
                 /\ IsArrayAt(m, "fields")
                 /\ (Len(m["fields"].v) = 0 \/ ~AllStrings(m["fields"].v)) ) =>
                    r.kind = "Err"
            /\ (key = "filtered" /\ "filter" \notin DOMAIN m) =>
                    IsErr(r, "FilteredNoFilter")
            /\ ( /\ key = "filtered"
                 /\ "filter" \in DOMAIN m
                 /\ ~parse_filter(m["filter"]).panic
                 /\ "query" \notin DOMAIN m ) =>
                    IsErr(r, "FilteredNoQuery")
            /\ ( /\ key = "filtered"
                 /\ "filter" \in DOMAIN m
                 /\ ~parse_filter(m["filter"]).panic
                 /\ "query" \in DOMAIN m
                 /\ parse_query(m["query"]).kind = "Err" ) =>
                    /\ r.kind = "Err"
                    /\ r.value = parse_query(m["query"]).value

\* The filter tree is matched as the reference predicate says.
RECURSIVE RefMatches(_, _)
RefMatches(f, d) ==
    CASE f.f = "Term" ->
            /\ f.field \in DOMAIN d.v
            /\ d.v[f.field].t = f.value.t
            /\ d.v[f.field].v = f.value.v
      [] f.f = "Prefix" ->
            /\ f.field \in DOMAIN d.v
            /\ d.v[f.field].t = "String"
            /\ \E n \in 0..Len(d.v[f.field].v) :
                  f.value \o SubSeq(d.v[f.field].v, n + 1, Len(d.v[f.field].v))
                      = d.v[f.field].v
      [] f.f = "And" -> \A i \in 1..Len(f.filters) : RefMatches(f.filters[i], d)
      [] f.f = "Or" -> \E i \in 1..Len(f.filters) : RefMatches(f.filters[i], d)
      [] f.f = "Not" -> ~RefMatches(f.filter, d)

UnknownFilterKey ==
    /\ HasOneKey(filter_input)
    /\ OnlyKey(filter_input) \notin {"term", "prefix", "and", "or", "not"}

HasNotImplemented(d) ==
    /\ "not" \in DOMAIN d.v
    /\ d.v["not"].t = "String"
    /\ d.v["not"].v = "implemented"

\* C9 (as stated): for an object whose key is none of term, prefix, and,
\* or, not, parse_filter returns Term("not", "implemented"), and that
\* filter matches no document.
C9_SentinelNeverMatches ==
    (filter # None /\ UnknownFilterKey) =>
        /\ ~filter[1].panic
        /\ filter[1].value =
              [f |-> "Term", field |-> "not", value |-> JString("implemented")]
        /\ matched # None => matched[1] = FALSE

\* C9 (amended): ... and that filter matches exactly the documents whose
\* field "not" is the string "implemented".
C9_SentinelMatchesOwnField ==
    (filter # None /\ UnknownFilterKey) =>
        /\ ~filter[1].panic
        /\ filter[1].value =
              [f |-> "Term", field |-> "not", value |-> JString("implemented")]
        /\ matched # None => matched[1] = HasNotImplemented(doc)

C9_Witness ==
    /\ filter_input = Object1("bogus", JObject(<<>>))
    /\ HasNotImplemented(doc)
    /\ matched = Some(TRUE)

\* C10: Filter::matches agrees with the reference predicate: Term is
\* equality with the field's raw value, Prefix a string field starting with
\* the prefix, And the conjunction, Or the disjunction, Not the negation; a
\* Term or Prefix on a field the document lacks is false.
C10_MatchesReference ==
    matched # None => matched[1] = RefMatches(filter[1].value, doc)

C10_Witness ==
    /\ filter # None
    /\ ~filter[1].panic
    /\ filter[1].value.f = "And"
    /\ Len(filter[1].value.filters) = 2
    /\ filter[1].value.filters[1].f = "Not"
    /\ filter[1].value.filters[2].f = "Prefix"
    /\ "status" \in DOMAIN doc.v
    /\ matched = Some(TRUE)

\* A result of process_value_for_index that is exactly one Token, at
\* position 1.
OneTokenAt1(result) ==
    /\ result # None
    /\ Len(result[1]) = 1
    /\ result[1][1].position = 1

\* C11 (as stated): for a field of type Boolean, process_value_for_index
\* returns exactly one Token, at position 1, for every Json value, null
\* included, and never None.
C11_BooleanAlwaysOneToken ==
    (map_type = "Boolean" /\ map_result # None) => OneTokenAt1(map_result[1])

\* C11 (amended): for a field of type Boolean, process_value_for_index
\* returns None for null and exactly one Token, at position 1 and holding a
\* boolean term, for every other Json value.
C11_BooleanOneTokenUnlessNull ==
    (map_type = "Boolean" /\ map_result # None) =>
        IF map_value.t = "Null"
        THEN map_result[1] = None
        ELSE /\ OneTokenAt1(map_result[1])
             /\ map_result[1][1][1].term.variant = "Boolean"
             /\ map_result[1][1][1].term.value \in BOOLEAN

C11_Witness ==
    /\ map_type = "Boolean"
    /\ map_value.t = "Array"
    /\ Len(map_value.v) = 2
    /\ map_result # None
    /\ OneTokenAt1(map_result[1])

\* C12: for a field of type Integer, a Json unsigned integer n gives one
\* Token at position 1 holding the unsigned term n, a Json signed integer n
\* gives one Token at position 1 holding the signed term n, and every other
\* Json value gives None.
C12_IntegerVariants ==
    (map_type = "Integer" /\ map_result # None) =>
        LET r == map_result[1]
        IN  IF map_value.t = "U64"
            THEN /\ OneTokenAt1(r)
                 /\ r[1][1].term.variant = "U64"
                 /\ r[1][1].term.value = map_value.v
            ELSE IF map_value.t = "I64"
            THEN /\ OneTokenAt1(r)
                 /\ r[1][1].term.variant = "I64"
                 /\ r[1][1].term.value = map_value.v
            ELSE r = None

\* The string elements of an array joined with one space, nulls dropped,
\* built from the last element backwards.
RECURSIVE RefJoined(_)
RefJoined(array) ==
    IF Len(array) = 0 THEN ""
    ELSE LET n == Len(array)
             front == SubSeq(array, 1, n - 1)
         IN  IF array[n].t # "String" THEN RefJoined(front)
             ELSE IF \E i \in 1..(n - 1) : array[i].t = "String"
                  THEN RefJoined(front) \o " " \o array[n].v
                  ELSE array[n].v

\* C13: for a field of type String and an array, process_value_for_index
\* returns None if an element is neither a string nor null, and otherwise
\* what it returns for the string elements joined with one space.
C13_ArrayJoin ==
    (map_type = "String" /\ map_value.t = "Array" /\ map_result # None) =>
        IF \E i \in 1..Len(map_value.v) : map_value.v[i].t \notin {"String", "Null"}
        THEN map_result[1] = None
        ELSE map_result[1] =
                process_value_for_index("String", JString(RefJoined(map_value.v)))

C13_Witness ==
    /\ map_type = "String"
    /\ map_value = JArray(<<JString("a"), JNull, JString("b c")>>)
    /\ map_result # None
    /\ map_result[1] = Some(<<Token(TermString("a"), 1), Token(TermString("b"), 2),
                              Token(TermString("c"), 3)>>)

\* C14: parse_boolean returns the value of a Json boolean, true for the
\* string "yes", and false for "no", for every other string and for every
\* other kind of Json value.
C14_ParseBoolean ==
    bool_result # None =>
        /\ bool_result[1] \in BOOLEAN
        /\ map_value.t = "Boolean" => bool_result[1] = map_value.v
        /\ map_value.t = "String" => bool_result[1] = (map_value.v = "yes")
        /\ map_value.t \notin {"Boolean", "String"} => bool_result[1] = FALSE

C14_Witness ==
    /\ bool_result = Some(FALSE)
    /\ map_value = JString("Yes")

\* The entries of one section of settings.analysis, when the input has one.
SectionOf(json, key) ==
    IF /\ json.t = "Object" /\ "settings" \in DOMAIN json.v
       /\ json.v["settings"].t = "Object"
       /\ "analysis" \in DOMAIN json.v["settings"].v
       /\ json.v["settings"].v["analysis"].t = "Object"
       /\ key \in DOMAIN json.v["settings"].v["analysis"].v
       /\ json.v["settings"].v["analysis"].v[key].t = "Object"
    THEN json.v["settings"].v["analysis"].v[key].v
    ELSE <<>>

\* The section is absent, while everything around it is well formed.
SectionAbsent(json, key) ==
    /\ json.v["settings"].v["analysis"].t = "Object"
    /\ key \notin DOMAIN json.v["settings"].v["analysis"].v

KnownTypes(key) ==
    IF key = "tokenizer" THEN {"standard", "nGram", "edgeNGram"}
    ELSE {"lowercase", "asciifolding", "nGram", "edgeNGram"}

DeclaresType(data) ==
    data.t = "Object" /\ "type" \in DOMAIN data.v /\ data.v["type"].t = "String"

UnrecognisedEntry(key, data) ==
    DeclaresType(data) /\ data.v["type"].v \notin KnownTypes(key)

FailingEntry(key, data) ==
    ~DeclaresType(data) \/ data.v["type"].v \notin KnownTypes(key)

ComesBefore(a, b) ==
    \E i, j \in 1..Len(EntryOrder) : i < j /\ EntryOrder[i] = a /\ EntryOrder[j] = b

RefDecimal(a) ==
    IF a = <<65535, 65535>> THEN <<52, 50, 57, 52, 57, 54, 55, 50, 57, 53>>
    ELSE IF a = <<65535, 65534>> THEN <<52, 50, 57, 52, 57, 54, 55, 50, 57, 52>>
    ELSE NatDigits(NatOf(a))

\* a + k, for a sum below 2^32.
RefAdd(a, k) == <<a[1] + ((a[2] + k) \div LimbBase), (a[2] + k) % LimbBase>>

U32Le(a, b) == a = b \/ U32Lt(a, b)

\* The u32 stored under ".next_chunk", if the key holds one.
DurableValue ==
    IF NEXT_CHUNK_KEY \notin DOMAIN db THEN None
    ELSE LET known == StoredCounterValue(db[NEXT_CHUNK_KEY])
             written == {v \in {next_chunk, local_next_chunk}
                                \cup {returned[i] : i \in 1..Len(returned)} :
                           db[NEXT_CHUNK_KEY] = RefDecimal(v)}
         IN  IF known # None THEN known
             ELSE IF written = {} THEN None
             ELSE Some(CHOOSE v \in written : TRUE)

\* Every allocator has had an id returned and no call is in flight.
AllHaveAllocated ==
    /\ mgr = "ready"
    /\ pc = "idle"
    /\ \A t \in allocators : \E i \in 1..Len(returned_by) : returned_by[i] = t

ReissuedAfterGapCrash ==
    /\ crashes >= 1
    /\ interrupted # None
    /\ Len(returned) > crash_at

\* C17 (as stated): after a crash between the increment and the write of
\* new_chunk and a reopen with open, new_chunk returns an id that a call
\* had returned before the crash.
C17_ReissuesReturnedId ==
    (ReissuedAfterGapCrash /\ crash_at >= 1) =>
        \E i \in 1..crash_at, j \in (crash_at + 1)..Len(returned) :
            returned[i] = returned[j]

\* C17 (amended): after a crash between the increment and the write of
\* new_chunk and a reopen with open, the next new_chunk returns the id of
\* the call the crash cut, which no call had returned before the crash.
C17_ReissuesOnlyInterrupted ==
    ReissuedAfterGapCrash =>
        /\ returned[crash_at + 1] = interrupted[1]
        /\ \A i \in 1..crash_at : returned[i] # interrupted[1]

C17_Witness ==
    /\ crashes = 1
    /\ crash_at = 1
    /\ interrupted = Some(<<0, 2>>)
    /\ origin = "open"
    /\ returned = <<(<<0, 1>>), (<<0, 2>>)>>

\* No id of `returned` is u32::MAX and no call holding u32::MAX is in flight.
BelowMax ==
    /\ \A i \in 1..Len(returned) : returned[i] # <<65535, 65535>>
    /\ pc = "fetched" => local_next_chunk # <<65535, 65535>>

\* C18: whichever allocators make the calls and in whatever order, below
\* u32::MAX no two calls return the same id and the ids returned are the
\* start value and the values after it, without a gap.
C18_UniqueGapFree ==
    (BelowMax /\ Len(returned) >= 1) =>
        /\ \A i, j \in 1..Len(returned) : returned[i] = returned[j] => i = j
        /\ {returned[i] : i \in 1..Len(returned)} =
              {RefAdd(start[1], k) : k \in 0..(Len(returned) - 1)}
        /\ Len(returned_by) = Len(returned)

C18_Witness ==
    /\ returned = <<(<<0, 7>>), (<<0, 8>>), (<<0, 9>>)>>
    /\ returned_by = <<1, 2, 1>>

\* C19: with one thread, crashes at any step and reopening with open, no
\* id returned after a crash is an id returned before it.
C19_NoReissueAfterCrash ==
    crashes >= 1 =>
        \A i \in 1..crash_at, j \in (crash_at + 1)..Len(returned) :
            returned[i] # returned[j]

C19_Witness ==
    /\ crashes = 2
    /\ crash_at = 2
    /\ interrupted = None
    /\ Len(returned) = 3
    /\ \A i \in 1..2 : U32Lt(returned[i], returned[3])

\* C20 (as stated): the counter stored under ".next_chunk" is at most the
\* in-memory counter of a manager made by new or open, and equal to it
\* whenever no new_chunk is in flight.
C20_DurableAtMostMemory ==
    (mgr = "ready" /\ DurableValue # None) =>
        /\ U32Le(DurableValue[1], next_chunk)
        /\ pc = "idle" => DurableValue[1] = next_chunk

\* C20 (amended): the same, except while the call that allocates u32::MAX
\* is in flight: then the in-memory counter has wrapped to 0 and the stored
\* counter is still u32::MAX.
C20_DurableAtMostMemoryBelowMax ==
    (mgr = "ready" /\ DurableValue # None) =>
        IF pc = "fetched" /\ local_next_chunk = <<65535, 65535>>
        THEN next_chunk = <<0, 0>> /\ DurableValue[1] = <<65535, 65535>>
        ELSE /\ U32Le(DurableValue[1], next_chunk)
             /\ pc = "idle" => DurableValue[1] = next_chunk

C20_Witness ==
    /\ mgr = "ready"
    /\ pc = "fetched"
    /\ caller = Some(2)
    /\ Len(returned) = 2
    /\ DurableValue = Some(local_next_chunk)
    /\ U32Lt(DurableValue[1], next_chunk)

====
